---- MODULE Spec2Model ----
(***************************************************************************)
(* The dependency-graph evaluator of the 2D canvas notebook backend        *)
(* (src/backend/code_executor.py, class CodeExecutor).                     *)
(*                                                                         *)
(* A box's code is a list of statements of a small language that stands    *)
(* for the Python text handed to exec(): enough to bind, rebind, delete    *)
(* and read names, to raise, and to end in a trailing expression.  An      *)
(* environment is a Python dict: a function whose DOMAIN is the set of     *)
(* bound keys.                                                             *)
(***************************************************************************)
EXTENDS Integers, Sequences, FiniteSets, TLC

\* ------------------------------------------------------------------ bounds
\* Longest arrow list of a request.
MaxArrows == 3
\* Longest arrow list of a request in the request-sequence specification.
MaxSeqArrows == 2
\* Longest arrow list of a workspace file.
MaxAppArrows == 2
\* Longest text a box writes to standard output or to standard error.
MaxText == 2

\* ------------------------------------------------------------ environments
\* Box ids.  Ids are opaque to the code, so every request is a renaming of
\* one whose target is "t"; "t" may be absent from the node set.
Ids == {"t", "a", "b"}
Target == "t"

Names == {"x", "y"}
LastExpr == "_last_expr_result"
\* Python's None, the value _last_expr_result is reset to; user values are >= 1.
None == 0

EmptyEnv == [k \in {} |-> None]

Bound(env, k) == k \in DOMAIN env

\* dict.update: every key of other is written over env.
FirstWinsUpdate(env, other) ==
  [k \in DOMAIN env \cup DOMAIN other |->
     IF k \in DOMAIN env THEN env[k] ELSE other[k]]
DictUpdate(env, other) ==
  [k \in DOMAIN env \cup DOMAIN other |->
     IF k \in DOMAIN other THEN other[k] ELSE env[k]]

DictSet(env, k, v) == [j \in DOMAIN env \cup {k} |-> IF j = k THEN v ELSE env[j]]
DictDel(env, k) == [j \in DOMAIN env \ {k} |-> env[j]]

\* ---------------------------------------------------------------- the code
Assign(n, v) == [op |-> "assign", name |-> n, val |-> v]  \* n = v
Incr(n) == [op |-> "incr", name |-> n, val |-> 1]         \* n = n + 1
Del(n) == [op |-> "del", name |-> n, val |-> None]        \* del n
Raise == [op |-> "raise", name |-> "", val |-> None]      \* raise Exception()
Expr(n) == [op |-> "expr", name |-> n, val |-> None]      \* n   (an ast.Expr)
\* The rewritten last line: _last_expr_result = n
Capture(n) == [op |-> "capture", name |-> n, val |-> None]

\* The box contents of the model.
CodeBind == <<Assign("x", 1), Assign("y", 1)>>
CodeRebind == <<Assign("x", 2), Del("y")>>
CodeBump == <<Incr("x"), Expr("y")>>
Codes == {CodeBind, CodeRebind, CodeBump}

\* One statement run by exec() against env: the environment after it and
\* whether it raised (a NameError for an unbound name, or the raise itself).
ExecStmt(s, env) ==
  CASE s.op = "assign" -> [env |-> DictSet(env, s.name, s.val), raised |-> FALSE]
    [] s.op = "incr" ->
         IF Bound(env, s.name)
           THEN [env |-> DictSet(env, s.name, env[s.name] + 1), raised |-> FALSE]
           ELSE [env |-> env, raised |-> TRUE]
    [] s.op = "del" ->
         IF Bound(env, s.name)
           THEN [env |-> DictDel(env, s.name), raised |-> FALSE]
           ELSE [env |-> env, raised |-> TRUE]
    [] s.op = "expr" -> [env |-> env, raised |-> ~Bound(env, s.name)]
    [] s.op = "capture" ->
         IF Bound(env, s.name)
           THEN [env |-> DictSet(env, LastExpr, env[s.name]), raised |-> FALSE]
           ELSE [env |-> env, raised |-> TRUE]
    [] OTHER -> [env |-> env, raised |-> TRUE]

\* exec(code, env) from statement i on: stops at the first statement that
\* raises, keeping what the earlier ones wrote into env.
RECURSIVE RunFrom(_, _, _)
RunFrom(code, env, i) ==
  IF i > Len(code) THEN [env |-> env, raised |-> FALSE]
  ELSE LET r == ExecStmt(code[i], env)
       IN IF r.raised THEN r ELSE RunFrom(code, r.env, i + 1)

exec(code, env) == RunFrom(code, env, 1)

\* ast.parse + isinstance(last_node, ast.Expr)
EndsInExpr(code) == Len(code) > 0 /\ code[Len(code)].op = "expr"

\* lines[last_line_no - 1] = f"_last_expr_result = {last_line}"
ModifiedCode(code) ==
  [i \in 1..Len(code) |-> IF i = Len(code) THEN Capture(code[i].name) ELSE code[i]]

\* _execute_code: the environment it leaves, the value it returns, whether
\* it raised, and how many times it ran the statements.  When the rewritten
\* code raises, the bare except swallows it and the original code is run
\* again on the environment the first run left.
execute_code(code, env) ==
  LET env0 == DictSet(env, LastExpr, None)
  IN IF EndsInExpr(code)
       THEN LET r1 == exec(ModifiedCode(code), env0)
            IN IF ~r1.raised
                 THEN [env |-> r1.env, value |-> r1.env[LastExpr],
                       raised |-> FALSE, runs |-> 1]
                 ELSE LET r2 == exec(code, r1.env)
                      IN [env |-> r2.env, value |-> None,
                          raised |-> r2.raised, runs |-> 2]
       ELSE LET r == exec(code, env0)
            IN [env |-> r.env, value |-> None, raised |-> r.raised, runs |-> 1]

\* _execute_single_box: the environment after the run, also when it raised.
execute_single_box(code, env) == execute_code(code, env).env

\* ------------------------------------------------------------------ inputs
Arrow == [start : Ids, end : Ids]
ArrowLists(n) == UNION {[1..k -> Arrow] : k \in 0..n}
BoxSets == UNION {[S -> Codes] : S \in SUBSET Ids}

\* ------------------------------------------------------------------- state
VARIABLES
  pc,               \* where the request stands: "idle", "resolve", "format", "done"
  box_id,           \* execute_with_dependencies' box_id
  code,             \* its code
  boxes,            \* its boxes: id -> content
  arrows,           \* its arrows: the list of [start, end]
  graph,            \* its adjacency list: node -> its parents, in arrow order
  execution_cache,  \* CodeExecutor.execution_cache: node -> environment
  stack,            \* the active calls of _execute_dag_node, outermost first
  env,              \* the environment _execute_dag_node returned for the target
  result,           \* what execute_with_dependencies returned
  evals,            \* history: the calls of _execute_code of this request
  prev,             \* history: the result of the previous request when it had
                    \* the same arguments
  workspace,        \* app.py's storage/workspace.json: the saved boxes and arrows
  formatted,        \* _execute_box_code after its run of the code: last_expr,
                    \* stdout_output, stderr_output and what it returns
  left_visited      \* history: the call of _execute_dag_node that evaluated its
                    \* node last, and the visited set it left (lines 87, 107)

vars == <<pc, box_id, code, boxes, arrows, graph, execution_cache, stack, env,
          result, evals, prev, workspace, formatted, left_visited>>

NoResult == [error |-> FALSE, kind |-> "none", node |-> "", value |-> None]
NoPrev == [error |-> FALSE, kind |-> "no previous request", node |-> "", value |-> None]
OtherPrev == [error |-> FALSE, kind |-> "other arguments", node |-> "", value |-> None]
\* No call of _execute_dag_node of this request has evaluated its node yet.
NoneLeft == [node_id |-> "", visited |-> {}]

\* reset_cache
KeepCache(cache) == cache
reset_cache(cache) == EmptyEnv

\* graph[arrow['end']].append(arrow['start']) for the arrows whose end is a box
ReversedParents(n, as) ==
  LET into == SelectSeq(as, LAMBDA e : e.start = n)
  IN [i \in 1..Len(into) |-> into[i].end]
Parents(n, as) ==
  LET into == SelectSeq(as, LAMBDA e : e.end = n)
  IN [i \in 1..Len(into) |-> into[i].start]

BuildGraph(bs, as) == [n \in DOMAIN bs |-> Parents(n, as)]

\* A call of _execute_dag_node(node_id, graph, box_lookup, visited): "enter"
\* before its checks, "parents" in the loop over its parents, i the parent
\* it resolves next.
FrameSharingVisited(n, visited) ==
  [node_id |-> n, visited |-> visited \cup DOMAIN execution_cache, phase |-> "enter",
   i |-> 1, merged_env |-> EmptyEnv]
Frame(n, visited) ==
  [node_id |-> n, visited |-> visited, phase |-> "enter", i |-> 1,
   merged_env |-> EmptyEnv]

Top == stack[Len(stack)]

Eval(n, by, in, r) ==
  [node |-> n, by |-> by, input |-> in, output |-> r.env, value |-> r.value,
   raised |-> r.raised, runs |-> r.runs]

\* The outcome of the checks a call of _execute_dag_node starts with, in the
\* order of the code.
EntryWithoutCache(n, visited, cache, lookup, g) ==
  IF n \in visited THEN "cycle"
  ELSE IF n \notin DOMAIN lookup THEN "not_found"
  ELSE IF Len(g[n]) = 0 THEN "leaf"
  ELSE "inner"
EntryBreakingCycle(n, visited, cache, lookup, g) ==
  IF n \in DOMAIN cache THEN "cached"
  ELSE IF n \in visited THEN "leaf"
  ELSE IF n \notin DOMAIN lookup THEN "not_found"
  ELSE IF Len(g[n]) = 0 THEN "leaf"
  ELSE "inner"
EntryAsLeaf(n, visited, cache, lookup, g) ==
  IF n \in DOMAIN cache THEN "cached"
  ELSE IF n \in visited THEN "cycle"
  ELSE IF n \notin DOMAIN lookup THEN "not_found"
  ELSE "leaf"
Entry(n, visited, cache, lookup, g) ==
  IF n \in DOMAIN cache THEN "cached"
  ELSE IF n \in visited THEN "cycle"
  ELSE IF n \notin DOMAIN lookup THEN "not_found"
  ELSE IF Len(g[n]) = 0 THEN "leaf"
  ELSE "inner"

TopEntry ==
  Entry(Top.node_id, Top.visited, execution_cache, boxes, graph)

\* The top call returns r: to the loop of its caller, which merges it
\* (merged_env.update(parent_env)), or to execute_with_dependencies.
ReturnToSameParent(r) ==
  IF Len(stack) = 1
    THEN /\ stack' = <<>>
         /\ env' = r
         /\ pc' = "format"
    ELSE LET caller == stack[Len(stack) - 1]
         IN /\ stack' = [SubSeq(stack, 1, Len(stack) - 1) EXCEPT
                           ![Len(stack) - 1] =
                             [caller EXCEPT !.merged_env = DictUpdate(@, r)]]
            /\ UNCHANGED <<env, pc>>
Return(r) ==
  IF Len(stack) = 1
    THEN /\ stack' = <<>>
         /\ env' = r
         /\ pc' = "format"
    ELSE LET caller == stack[Len(stack) - 1]
         IN /\ stack' = [SubSeq(stack, 1, Len(stack) - 1) EXCEPT
                           ![Len(stack) - 1] =
                             [caller EXCEPT !.merged_env = DictUpdate(@, r),
                                            !.i = @ + 1]]
            /\ UNCHANGED <<env, pc>>

\* except Exception (lines 55 and 188): the exception types it catches.
\* Cycles and missing boxes raise ValueError, a run of box code that fails
\* raises NameError (an unbound name).
ExceptKeyError(type) == type = "KeyError"
ExceptException(type) == type \in {"ValueError", "NameError", "KeyError"}

\* raise ValueError(...) in _execute_dag_node: it unwinds every active call
\* to the except clause of execute_with_dependencies (lines 55-58), which
\* returns the error result; uncaught, it leaves execute_with_dependencies.
Abort(kind, n) ==
  /\ stack' = <<>>
  /\ IF ExceptException("ValueError")
       THEN /\ result' = [error |-> TRUE, kind |-> kind, node |-> n, value |-> None]
            /\ pc' = "done"
       ELSE /\ result' = result
            /\ pc' = "escaped"

\* ----------------------------------------------------------------- actions
\* execute_with_dependencies(t, c, bs, as), lines 28-43: the cache is
\* reset, the adjacency list built, and a box_id that is no box answered at
\* once.
TargetNotFound(t, c, bs, as) ==
  /\ pc \in {"idle", "done"}
  /\ t \notin DOMAIN bs
  /\ box_id' = t
  /\ code' = c
  /\ boxes' = bs
  /\ arrows' = as
  /\ prev' = IF pc = "idle" THEN NoPrev
             ELSE IF <<t, c, bs, as>> = <<box_id, code, boxes, arrows>> THEN result
             ELSE OtherPrev
  /\ execution_cache' = reset_cache(execution_cache)
  /\ graph' = BuildGraph(bs, as)
  /\ result' = [error |-> TRUE, kind |-> "target_not_found", node |-> t,
                value |-> None]
  /\ pc' = "done"
  /\ evals' = <<>>
  /\ left_visited' = NoneLeft
  /\ UNCHANGED <<stack, env, workspace, formatted>>

\* execute_with_dependencies(t, c, bs, as), lines 28-51: the same, and
\* the call _execute_dag_node(box_id, graph, box_lookup, set()).
StartResolve(t, c, bs, as) ==
  /\ pc \in {"idle", "done"}
  /\ t \in DOMAIN bs
  /\ box_id' = t
  /\ code' = c
  /\ boxes' = bs
  /\ arrows' = as
  /\ prev' = IF pc = "idle" THEN NoPrev
             ELSE IF <<t, c, bs, as>> = <<box_id, code, boxes, arrows>> THEN result
             ELSE OtherPrev
  /\ execution_cache' = reset_cache(execution_cache)
  /\ graph' = BuildGraph(bs, as)
  /\ result' = NoResult
  /\ stack' = <<Frame(t, {})>>
  /\ pc' = "resolve"
  /\ evals' = <<>>
  /\ left_visited' = NoneLeft
  /\ UNCHANGED <<env, workspace, formatted>>

\* _execute_dag_node, lines 64-65: the node is in the cache.
ReturnCached ==
  /\ pc = "resolve"
  /\ Top.phase = "enter"
  /\ TopEntry = "cached"
  /\ Return(execution_cache[Top.node_id])
  /\ UNCHANGED <<box_id, code, boxes, arrows, graph, execution_cache, result, evals,
                 prev, workspace, formatted, left_visited>>

\* _execute_dag_node, lines 68-69, and the except of lines 55-58.
RaiseCycle ==
  /\ pc = "resolve"
  /\ Top.phase = "enter"
  /\ TopEntry = "cycle"
  /\ Abort("cycle", Top.node_id)
  /\ UNCHANGED <<box_id, code, boxes, arrows, graph, execution_cache, env, evals,
                 prev, workspace, formatted, left_visited>>

\* _execute_dag_node, lines 74-75, and the except of lines 55-58.
RaiseNotFound ==
  /\ pc = "resolve"
  /\ Top.phase = "enter"
  /\ TopEntry = "not_found"
  /\ Abort("not_found", Top.node_id)
  /\ UNCHANGED <<box_id, code, boxes, arrows, graph, execution_cache, env, evals,
                 prev, workspace, formatted, left_visited>>

\* _execute_dag_node, lines 71-88: no parents, a fresh environment; the
\* node joins visited (line 71) and leaves it (line 87).
ExecuteLeaf ==
  /\ pc = "resolve"
  /\ Top.phase = "enter"
  /\ TopEntry = "leaf"
  /\ LET n == Top.node_id
         r == execute_code(boxes[n], EmptyEnv)
         res == execute_single_box(boxes[n], EmptyEnv)
     IN /\ execution_cache' = DictSet(execution_cache, n, res)
        /\ evals' = Append(evals, Eval(n, "resolver", EmptyEnv, r))
        /\ left_visited' = [node_id |-> n, visited |-> (Top.visited \cup {n}) \ {n}]
        /\ Return(res)
  /\ UNCHANGED <<box_id, code, boxes, arrows, graph, result, prev, workspace,
                 formatted>>

\* _execute_dag_node, lines 71-91: the node joins visited and the loop over
\* its parents starts.
EnterParents ==
  /\ pc = "resolve"
  /\ Top.phase = "enter"
  /\ TopEntry = "inner"
  /\ stack' = [stack EXCEPT ![Len(stack)] =
                 [@ EXCEPT !.phase = "parents",
                           !.visited = @ \cup {Top.node_id}]]
  /\ UNCHANGED <<pc, box_id, code, boxes, arrows, graph, execution_cache, env, result,
                 evals, prev, workspace, formatted, left_visited>>

\* _execute_dag_node, line 95: the recursive call for the next parent, with
\* a copy of visited.
CallParent ==
  /\ pc = "resolve"
  /\ Top.phase = "parents"
  /\ Top.i <= Len(graph[Top.node_id])
  /\ stack' = Append(stack, Frame(graph[Top.node_id][Top.i], Top.visited))
  /\ UNCHANGED <<pc, box_id, code, boxes, arrows, graph, execution_cache, env, result,
                 evals, prev, workspace, formatted, left_visited>>

\* _execute_dag_node, lines 101-109: every parent is merged; the node runs
\* in the merged environment, is cached, leaves visited and returns.
ExecuteNode ==
  /\ pc = "resolve"
  /\ Top.phase = "parents"
  /\ Top.i > Len(graph[Top.node_id])
  /\ LET n == Top.node_id
         r == execute_code(boxes[n], Top.merged_env)
         res == execute_single_box(boxes[n], Top.merged_env)
     IN /\ execution_cache' = DictSet(execution_cache, n, res)
        /\ evals' = Append(evals, Eval(n, "resolver", Top.merged_env, r))
        /\ left_visited' = [node_id |-> n, visited |-> Top.visited \ {n}]
        /\ Return(res)
  /\ UNCHANGED <<box_id, code, boxes, arrows, graph, result, prev, workspace,
                 formatted>>

\* The result _execute_box_code shapes from a run: the error of lines
\* 188-192, the record of lines 171-179 or the text of lines 182-186.
BoxResult(r) ==
  IF r.raised
    THEN [error |-> TRUE, kind |-> "exception", node |-> "", value |-> None]
  ELSE IF r.value # None
    THEN [error |-> FALSE, kind |-> "data", node |-> "", value |-> r.value]
  ELSE [error |-> FALSE, kind |-> "text", node |-> "", value |-> None]

\* execute_with_dependencies, line 54: _execute_box_code runs the target's
\* content in env, which is the dict the cache holds for the target.
ExecuteBoxCode ==
  /\ pc = "format"
  /\ LET r == execute_code(boxes[box_id], env)
     IN /\ evals' = Append(evals, Eval(box_id, "formatter", env, r))
        /\ env' = r.env
        /\ execution_cache' = DictSet(execution_cache, box_id, r.env)
        /\ IF r.raised /\ ~ExceptException("NameError")
             THEN result' = result /\ pc' = "escaped"
             ELSE result' = BoxResult(r) /\ pc' = "done"
  /\ UNCHANGED <<box_id, code, boxes, arrows, graph, stack, prev, workspace,
                 formatted, left_visited>>

\* ------------------------------------------------ shaping the result
\* A text is a sequence of characters.
Whitespace == {" ", "\n"}
Chars == {"a"} \cup Whitespace

\* str.strip(): the text without its leading and trailing whitespace.
RECURSIVE lstrip(_)
lstrip(text) ==
  IF Len(text) > 0 /\ Head(text) \in Whitespace THEN lstrip(Tail(text)) ELSE text
RECURSIVE rstrip(_)
rstrip(text) ==
  IF Len(text) > 0 /\ text[Len(text)] \in Whitespace
    THEN rstrip(SubSeq(text, 1, Len(text) - 1))
    ELSE text
strip(text) == rstrip(lstrip(text))

\* f"\nError: {stderr_output}" without the text itself.
ErrorLabel == <<"\n", "E", "r", "r", "o", "r", ":", " ">>

\* Lines 135-140: standard output, then the labelled standard error.
text_output(stdout_output, stderr_output) ==
  stdout_output \o (IF Len(stderr_output) > 0 THEN ErrorLabel \o stderr_output
                                               ELSE <<>>)

\* The value of the trailing expression, by what lines 143-171 ask of it:
\* whether it is None, whether it is a matplotlib Figure, whether it has a
\* _repr_html_, and whether rendering it (savefig, _repr_html_(), str())
\* raises.
NoValue == [is_none |-> TRUE, is_figure |-> FALSE, has_repr_html |-> FALSE,
            raises |-> FALSE]
Values ==
  {NoValue} \cup [is_none : {FALSE}, is_figure : BOOLEAN, has_repr_html : BOOLEAN,
                  raises : BOOLEAN]

\* The branch of lines 143-186 a value takes, in the order of the code.
HtmlBeforeFigure(last_expr) ==
  IF last_expr.has_repr_html THEN "html"
  ELSE IF last_expr.is_figure THEN "figure"
  ELSE IF ~last_expr.is_none THEN "regular"
  ELSE "text"
Branch(last_expr) ==
  IF last_expr.is_figure THEN "figure"
  ELSE IF last_expr.has_repr_html THEN "html"
  ELSE IF ~last_expr.is_none THEN "regular"
  ELSE "text"

\* What _execute_box_code returns: error, whether output is a plain string
\* (and then the string), else output's text_output (None: absent) and the
\* keys of output's data.
Shaped(plain, text, absent, data) ==
  [error |-> FALSE, plain |-> plain, text |-> text, text_absent |-> absent,
   data |-> data]
ShapedError ==
  [error |-> TRUE, plain |-> TRUE, text |-> <<"T", "r", "a", "c", "e">>,
   text_absent |-> FALSE, data |-> {}]

\* Lines 131-192 of _execute_box_code, after the code has run.
shape_result(last_expr, stdout_output, stderr_output) ==
  LET text == text_output(stdout_output, stderr_output)
      branch == Branch(last_expr)
      data == CASE branch = "figure" -> {"image/png"}
                [] branch = "html" -> {"text/html", "text/plain"}
                [] branch = "regular" -> {"text/plain"}
                [] OTHER -> {}
  IN IF branch = "text" THEN Shaped(TRUE, strip(text), FALSE, data)
     ELSE IF last_expr.raises THEN ShapedError
     ELSE IF Len(text) > 0 THEN Shaped(FALSE, strip(text), FALSE, data)
     ELSE Shaped(FALSE, <<>>, TRUE, data)

\* Nothing returned yet.
NoOutput == Shaped(TRUE, <<>>, TRUE, {})

NotFormatting ==
  [last_expr |-> NoValue, stdout_output |-> <<>>, stderr_output |-> <<>>,
   returned |-> FALSE, output |-> NoOutput]

\* _execute_box_code from line 131 on: the result is shaped and returned.
ShapeResult ==
  /\ pc = "format"
  /\ ~formatted.returned
  /\ formatted' =
       [formatted EXCEPT
          !.returned = TRUE,
          !.output = shape_result(formatted.last_expr, formatted.stdout_output,
                                  formatted.stderr_output)]
  /\ pc' = "done"
  /\ UNCHANGED <<box_id, code, boxes, arrows, graph, execution_cache, stack, env,
                 result, evals, prev, workspace, left_visited>>

\* ------------------------------------------------------------------ app.py
\* load_workspace_from_file when the file does not exist.
NoFile == [boxes |-> EmptyEnv, arrows |-> <<>>]

\* models.Arrow: the fields the workspace model declares for an arrow.
ArrowFields == {"id", "source", "target"}

\* Workspace validation of the request body: every declared field is present.
ValidArrow(a) == ArrowFields \subseteq DOMAIN a

\* workspace.dict(): each arrow keeps its declared fields and no other key.
ArrowDict(a) == [k \in ArrowFields |-> a[k]]
WorkspaceDict(ws) ==
  [boxes |-> ws.boxes,
   arrows |-> [i \in 1..Len(ws.arrows) |-> ArrowDict(ws.arrows[i])]]

\* arrow['end'] of line 37 and arrow['start'] of line 38 raise KeyError for
\* an arrow record without that key; 'start' is read only of an arrow whose
\* end is a box.
HasKey(d, k) == k \in DOMAIN d
ArrowKeyError(bs, as) ==
  \E i \in 1..Len(as) :
    IF HasKey(as[i], "end")
      THEN as[i].end \in DOMAIN bs /\ ~HasKey(as[i], "start")
      ELSE TRUE

\* execute_with_dependencies(t, c, bs, as), lines 28-38: the cache is reset
\* and the loop that builds the adjacency list raises KeyError, outside the
\* try of lines 49-58; app.py's except (lines 81-83) answers with an error.
GraphKeyError(t, c, bs, as) ==
  /\ pc \in {"idle", "done"}
  /\ ArrowKeyError(bs, as)
  /\ box_id' = t
  /\ code' = c
  /\ boxes' = bs
  /\ arrows' = as
  /\ prev' = IF pc = "idle" THEN NoPrev
             ELSE IF <<t, c, bs, as>> = <<box_id, code, boxes, arrows>> THEN result
             ELSE OtherPrev
  /\ execution_cache' = reset_cache(execution_cache)
  /\ graph' = EmptyEnv
  /\ IF ExceptException("KeyError")
       THEN /\ result' = [error |-> TRUE, kind |-> "key_error", node |-> "",
                          value |-> None]
            /\ pc' = "done"
       ELSE /\ result' = result
            /\ pc' = "escaped"
  /\ evals' = <<>>
  /\ left_visited' = NoneLeft
  /\ UNCHANGED <<stack, env, workspace, formatted>>

\* POST /workspace (lines 60-64): a valid body is saved as the model's dict.
update_workspace(ws) ==
  /\ pc = "idle"
  /\ \A i \in 1..Len(ws.arrows) : ValidArrow(ws.arrows[i])
  /\ workspace' = WorkspaceDict(ws)
  /\ UNCHANGED <<pc, box_id, code, boxes, arrows, graph, execution_cache, stack,
                 env, result, evals, prev, formatted, left_visited>>

\* POST /execute (lines 66-80): the saved workspace is loaded and handed to
\* the executor with the request's box id and code.
post_execute(t, c) ==
  /\ pc = "idle"
  /\ \/ GraphKeyError(t, c, workspace.boxes, workspace.arrows)
     \/ /\ ~ArrowKeyError(workspace.boxes, workspace.arrows)
        /\ TargetNotFound(t, c, workspace.boxes, workspace.arrows)
     \/ /\ ~ArrowKeyError(workspace.boxes, workspace.arrows)
        /\ StartResolve(t, c, workspace.boxes, workspace.arrows)

\* POST /execute, line 80: the result is sent and the call's arguments and
\* locals are gone; the executor keeps its cache.
Respond ==
  /\ pc = "done"
  /\ pc' = "idle"
  /\ box_id' = ""
  /\ code' = <<>>
  /\ boxes' = EmptyEnv
  /\ arrows' = <<>>
  /\ graph' = EmptyEnv
  /\ stack' = <<>>
  /\ env' = EmptyEnv
  /\ result' = NoResult
  /\ evals' = <<>>
  /\ prev' = NoPrev
  /\ left_visited' = NoneLeft
  /\ UNCHANGED <<execution_cache, workspace, formatted>>

\* ---------------------------------------------------------- specifications
\* The executor after __init__: an empty cache, no request yet.
Init ==
  /\ pc = "idle"
  /\ box_id = ""
  /\ code = <<>>
  /\ boxes = EmptyEnv
  /\ arrows = <<>>
  /\ graph = EmptyEnv
  /\ execution_cache = EmptyEnv
  /\ stack = <<>>
  /\ env = EmptyEnv
  /\ result = NoResult
  /\ evals = <<>>
  /\ prev = NoPrev
  /\ workspace = NoFile
  /\ formatted = NotFormatting
  /\ left_visited = NoneLeft

Step ==
  \/ ReturnCached
  \/ RaiseCycle
  \/ RaiseNotFound
  \/ ExecuteLeaf
  \/ EnterParents
  \/ CallParent
  \/ ExecuteNode
  \/ ExecuteBoxCode

\* The code a request carries for its box: the content the box has; an
\* empty text for a box_id that is no box.  Lines 26-58 never read it.
ContentOf(t, bs) == IF t \in DOMAIN bs THEN bs[t] ELSE <<>>

\* One request on a fresh executor, for every node set over Ids, every
\* content of every box and every arrow list of at most MaxArrows arrows.
Next ==
  \/ /\ pc = "idle"
     /\ \E bs \in BoxSets, as \in ArrowLists(MaxArrows) :
          \/ TargetNotFound(Target, ContentOf(Target, bs), bs, as)
          \/ StartResolve(Target, ContentOf(Target, bs), bs, as)
  \/ Step

Spec == Init /\ [][Next]_vars

\* A sequence of requests on the one executor of app.py (executor =
\* CodeExecutor()), over a smaller family of graphs: two ids, two contents, any target.
SeqIds == {"t", "a"}
SeqArrowLists == UNION {[1..k -> [start : SeqIds, end : SeqIds]] : k \in 0..MaxSeqArrows}
SeqCodes == {CodeBind, CodeBump}
SeqBoxSets == UNION {[S -> SeqCodes] : S \in SUBSET SeqIds}

NextSeq ==
  \/ /\ pc \in {"idle", "done"}
     /\ \E t \in SeqIds, bs \in SeqBoxSets, as \in SeqArrowLists :
          \/ TargetNotFound(t, ContentOf(t, bs), bs, as)
          \/ StartResolve(t, ContentOf(t, bs), bs, as)
  \/ Step

SpecSeq == Init /\ [][NextSeq]_vars

\* One request on a fresh executor, run by an interpreter that keeps going:
\* a call that can take its next step takes it.  Every node set over Ids and
\* every arrow list of at most MaxArrows arrows; every box holds the code
\* that ends in an expression and fails where its names are unbound.
FairBoxSets == UNION {[S -> {CodeBump}] : S \in SUBSET Ids}

NextFair ==
  \/ /\ pc = "idle"
     /\ \E bs \in FairBoxSets, as \in ArrowLists(MaxArrows) :
          \/ TargetNotFound(Target, ContentOf(Target, bs), bs, as)
          \/ StartResolve(Target, ContentOf(Target, bs), bs, as)
  \/ Step

SpecFair == Init /\ [][NextFair]_vars /\ WF_vars(Step)

\* The server of app.py: workspaces are saved and boxes executed, in any
\* order, one request at a time.  The workspace file the server starts
\* with is absent or holds arrows under the keys the executor reads; a
\* request body holds arrows under the model's keys, with or without the
\* executor's keys beside them.
FileArrowLists == UNION {[1..k -> [start : SeqIds, end : SeqIds]] : k \in 0..MaxAppArrows}
Files == {[boxes |-> bs, arrows |-> as] : bs \in SeqBoxSets, as \in FileArrowLists}

BodyArrows ==
  [id : {"e"}, source : SeqIds, target : SeqIds]
    \cup {[id |-> "e", source |-> p, target |-> n, start |-> p, end |-> n] :
            p \in SeqIds, n \in SeqIds}
BodyArrowLists == UNION {[1..k -> BodyArrows] : k \in 0..MaxAppArrows}
Bodies == {[boxes |-> bs, arrows |-> as] : bs \in SeqBoxSets, as \in BodyArrowLists}

InitApp ==
  /\ pc = "idle"
  /\ box_id = ""
  /\ code = <<>>
  /\ boxes = EmptyEnv
  /\ arrows = <<>>
  /\ graph = EmptyEnv
  /\ execution_cache = EmptyEnv
  /\ stack = <<>>
  /\ env = EmptyEnv
  /\ result = NoResult
  /\ evals = <<>>
  /\ prev = NoPrev
  /\ workspace \in {NoFile} \cup Files
  /\ formatted = NotFormatting
  /\ left_visited = NoneLeft

NextApp ==
  \/ \E ws \in Bodies : update_workspace(ws)
  \/ \E t \in SeqIds, c \in SeqCodes : post_execute(t, c)
  \/ Respond
  \/ Step

SpecApp == InitApp /\ [][NextApp]_vars

\* _execute_box_code after a run of the code that did not raise, for every
\* trailing value and every text of at most MaxText characters on standard
\* output and on standard error.
Texts == UNION {[1..k -> Chars] : k \in 0..MaxText}

InitShape ==
  /\ pc = "format"
  /\ box_id = ""
  /\ code = <<>>
  /\ boxes = EmptyEnv
  /\ arrows = <<>>
  /\ graph = EmptyEnv
  /\ execution_cache = EmptyEnv
  /\ stack = <<>>
  /\ env = EmptyEnv
  /\ result = NoResult
  /\ evals = <<>>
  /\ prev = NoPrev
  /\ workspace = NoFile
  /\ formatted \in [last_expr : Values, stdout_output : Texts, stderr_output : Texts,
                     returned : {FALSE}, output : {NoOutput}]
  /\ left_visited = NoneLeft

NextShape == ShapeResult

SpecShape == InitShape /\ [][NextShape]_vars

\* ------------------------------------------------- the graph of a request
\* Read from the request's arguments, not from the adjacency list the code
\* builds.
Edge(p, c) == \E i \in 1..Len(arrows) : arrows[i].start = p /\ arrows[i].end = c

\* The ids reachable backward from the ids of S, S included.
RECURSIVE Back(_)
Back(S) ==
  LET S2 == S \cup {p \in Ids : \E c \in S : Edge(p, c)}
  IN IF S2 = S THEN S ELSE Back(S2)

\* Reachable backward from n by at least one arrow.
Ancestors(n) == Back({p \in Ids : Edge(p, n)})
ProperAncestors(n) == Ancestors(n) \ {n}
OnCycle(n) == n \in Ancestors(n)
AcyclicGraph == \A n \in Ids : ~OnCycle(n)
CycleReachable(n) == \E m \in Back({n}) : OnCycle(m)
\* Every arrow into the target or one of its ancestors starts at a box.
AncestorsExist(n) == Back({n}) \subseteq DOMAIN boxes

EvalsOf(n) == Cardinality({i \in 1..Len(evals) : evals[i].node = n})
Evaluated == {evals[i].node : i \in 1..Len(evals)}
Returned == pc = "done"
StructuralError == result.kind \in {"target_not_found", "cycle", "not_found"}

MaxOf(S) == CHOOSE m \in S : \A j \in S : j <= m

\* ------------------------------------------------------------------ claims

\* C1 as stated: for every acyclic graph and every target in it, a call
\* that has returned has evaluated each proper ancestor of the target
\* exactly once.  (An evaluation is one call of _execute_code.)
C1_AncestorsOnceInEveryAcyclicGraph ==
  (Returned /\ box_id \in DOMAIN boxes /\ AcyclicGraph)
    => \A n \in ProperAncestors(box_id) \cap DOMAIN boxes : EvalsOf(n) = 1

\* C1 amended: for every acyclic graph in which every arrow into the target
\* or one of its ancestors starts at a box, no proper ancestor of the target
\* is ever evaluated twice, and a call that has returned has evaluated each
\* of them exactly once, diamonds and duplicate arrows included.
C1_AncestorsEvaluatedOnce ==
  (box_id \in DOMAIN boxes /\ AcyclicGraph /\ AncestorsExist(box_id))
    => /\ \A n \in ProperAncestors(box_id) : EvalsOf(n) <= 1
       /\ Returned => \A n \in ProperAncestors(box_id) : EvalsOf(n) = 1

\* An ancestor that two arrows of the resolved part start at (a diamond, a
\* second path or a duplicate arrow) has been evaluated once.
C1_Witness ==
  /\ Returned /\ box_id \in DOMAIN boxes /\ AcyclicGraph /\ AncestorsExist(box_id)
  /\ \E n \in ProperAncestors(box_id) :
       /\ Cardinality({i \in 1..Len(arrows) :
                         arrows[i].start = n /\ arrows[i].end \in Back({box_id})}) >= 2
       /\ EvalsOf(n) = 1

\* C2 as stated: within one call the target's own code is evaluated at most
\* once.
C2_TargetEvaluatedAtMostOnce == EvalsOf(box_id) <= 1

\* The merge of the cached environments of the parents ps[i..], onto acc.
RECURSIVE MergeFrom(_, _, _)
MergeFrom(ps, i, acc) ==
  IF i > Len(ps) THEN acc
  ELSE MergeFrom(ps, i + 1, DictUpdate(acc, execution_cache[ps[i]]))

\* The merge of the environments of n's parents, in arrow order; the empty
\* environment when n has none.
MergedParents(n) == MergeFrom(Parents(n, arrows), 1, EmptyEnv)

\* C3 as stated: when resolution meets no structural error, the result has
\* error = true exactly when evaluating the target's code against the merge
\* of its parents' environments fails.
C3_ResultIsTargetOutcome ==
  (Returned /\ ~StructuralError)
    => (result.error <=> execute_code(boxes[box_id], MergedParents(box_id)).raised)

\* C4: a node with parents is evaluated by the resolver in the environment
\* in which every name has the value of the last parent, in arrow order,
\* that binds it, and is unbound when no parent binds it.
C4_LastDependencyWins ==
  \A i \in 1..Len(evals) :
    LET ps == Parents(evals[i].node, arrows)
    IN (evals[i].by = "resolver" /\ Len(ps) > 0)
         => \A k \in Names \cup {LastExpr} :
              LET binders == {j \in 1..Len(ps) :
                                /\ ps[j] \in DOMAIN execution_cache
                                /\ k \in DOMAIN execution_cache[ps[j]]}
              IN IF binders = {}
                   THEN k \notin DOMAIN evals[i].input
                   ELSE /\ k \in DOMAIN evals[i].input
                        /\ evals[i].input[k] = execution_cache[ps[MaxOf(binders)]][k]

\* Two different parents bind x to different values, and the node ran with
\* the later one's.
C4_Witness ==
  \E i \in 1..Len(evals) :
    LET ps == Parents(evals[i].node, arrows)
    IN /\ evals[i].by = "resolver"
       /\ \E j1, j2 \in 1..Len(ps) :
            /\ j1 < j2
            /\ \A j \in j2 + 1..Len(ps) : "x" \notin DOMAIN execution_cache[ps[j]]
            /\ "x" \in DOMAIN execution_cache[ps[j1]]
            /\ "x" \in DOMAIN execution_cache[ps[j2]]
            /\ execution_cache[ps[j1]]["x"] # execution_cache[ps[j2]]["x"]
            /\ evals[i].input["x"] = execution_cache[ps[j2]]["x"]

\* When a cycle is reachable backward from the target and every node on the
\* way exists, the target's code is never evaluated and the call returns
\* error = true with a cycle diagnostic naming a node that lies on a cycle.
C5_WhenCycleReachable ==
  (box_id \in DOMAIN boxes /\ CycleReachable(box_id) /\ AncestorsExist(box_id))
    => /\ EvalsOf(box_id) = 0
       /\ pc \notin {"format", "escaped"}
       /\ Returned => /\ result.error
                      /\ result.kind = "cycle"
                      /\ OnCycle(result.node)

\* At the raise of the cycle error the node it names is the node of a call
\* that is in the loop over its parents.
C5_NamedNodeIsActive ==
  (pc = "resolve" /\ pc' = "done" /\ result'.kind = "cycle")
    => \E j \in 1..Len(stack) - 1 :
         stack[j].node_id = result'.node /\ stack[j].phase = "parents"

\* C5: both parts, in every state and at every step of every request: the
\* cycle error is returned, the target is not evaluated, and the node the
\* error names lies on a cycle and is the node of an active call.
C5_CycleReported == [](C5_WhenCycleReachable) /\ [][C5_NamedNodeIsActive]_vars

\* The call returned the cycle error for a cycle that is not a self-loop
\* and that the target is not on.
C5_Witness ==
  /\ Returned /\ result.kind = "cycle"
  /\ AncestorsExist(box_id)
  /\ ~OnCycle(box_id)
  /\ ~Edge(result.node, result.node)

\* C6: a cycle error is reported only when a cycle is reachable backward
\* from the target.
C6_NoFalseCycle == result.kind = "cycle" => CycleReachable(box_id)

\* The call succeeded on a graph that has a cycle in a part the target does
\* not depend on, with an ancestor that two arrows start at.
C6_Witness ==
  /\ Returned /\ ~result.error
  /\ \E n \in Ids : OnCycle(n)
  /\ \E n \in ProperAncestors(box_id) :
       Cardinality({i \in 1..Len(arrows) :
                      arrows[i].start = n /\ arrows[i].end \in Back({box_id})}) >= 2

\* What one run of code leaves in env and what output holds agree on the
\* user's names.
SameBindings(e1, e2) ==
  \A k \in Names : /\ (k \in DOMAIN e1) <=> (k \in DOMAIN e2)
                   /\ k \in DOMAIN e1 => e1[k] = e2[k]

\* C7 as stated: a failing evaluation of a non-target ancestor does not
\* abort the request, every other ancestor and the target are still
\* evaluated, and the failed ancestor contributes exactly its input
\* environment plus the bindings its code made before the failure.
C7_FailedAncestorContributes ==
  \A i \in 1..Len(evals) :
    (evals[i].by = "resolver" /\ evals[i].node # box_id /\ evals[i].raised)
      => /\ pc # "escaped"
         /\ (Returned /\ ~StructuralError) => Back({box_id}) \subseteq Evaluated
         /\ evals[i].node \in DOMAIN execution_cache
         /\ SameBindings(execution_cache[evals[i].node],
                         exec(boxes[evals[i].node], evals[i].input).env)

\* C8: no state leaks between requests.  While a request runs and when it
\* has returned, every entry of the cache was written by an evaluation of
\* this request, whatever the earlier requests were; and a request with the
\* arguments of the request before it returns the result that one returned.
C8_NoLeakBetweenRequests ==
  /\ pc \in {"resolve", "format", "done"} => DOMAIN execution_cache \subseteq Evaluated
  /\ (Returned /\ prev # NoPrev /\ prev # OtherPrev) => result = prev

\* The same request twice: the second returned the value of the first, after
\* evaluating an ancestor again.
C8_Witness ==
  /\ Returned
  /\ prev.kind = "data"
  /\ result = prev
  /\ ProperAncestors(box_id) \cap Evaluated # {}

\* C9 as stated: every arrow with an endpoint that is no box makes the call
\* return a not-found error.
C9_DanglingArrowSurfaced ==
  (Returned /\ \E i \in 1..Len(arrows) :
                 arrows[i].start \notin DOMAIN boxes \/ arrows[i].end \notin DOMAIN boxes)
    => /\ result.error
       /\ result.kind \in {"not_found", "target_not_found"}

\* C10: no exception leaves execute_with_dependencies; what it returns has a
\* boolean error flag that is true exactly for the error outputs; and for a
\* target that is no box it returns error = true having evaluated nothing.
C10_AlwaysAResult ==
  /\ pc # "escaped"
  /\ Returned =>
       /\ result.error \in BOOLEAN
       /\ result.kind \in {"target_not_found", "cycle", "not_found", "exception",
                           "data", "text"}
       /\ result.error <=> result.kind \in {"target_not_found", "cycle", "not_found",
                                            "exception"}
  /\ (Returned /\ box_id \notin DOMAIN boxes) => (result.error /\ evals = <<>>)

\* The call returned an error for a target that is no box, in a graph with
\* boxes and arrows.
C10_Witness ==
  /\ Returned
  /\ box_id \notin DOMAIN boxes
  /\ DOMAIN boxes # {}
  /\ arrows # <<>>
  /\ result.error
  /\ evals = <<>>

\* C11: for every node set, every arrow list, cyclic or acyclic, and every
\* target, a call of execute_with_dependencies that has started returns.
C11_Terminates == (pc \in {"resolve", "format"}) ~> Returned

\* The call returned the cycle error after it had resolved and evaluated a
\* part of the graph.
C11_Witness ==
  /\ Returned
  /\ result.kind = "cycle"
  /\ Len(evals) >= 1
  /\ Cardinality(DOMAIN boxes) = 3

\* C12 as stated: when the workspace saved through update_workspace holds
\* boxes A and B and the arrow from A to B as its one arrow, an execute
\* request for B that has returned has evaluated A and has run B's code in
\* an environment that holds the bindings A produced.
C12_SavedArrowSeedsTarget ==
  (/\ Returned
   /\ Len(arrows) = 1
   /\ ArrowFields \subseteq DOMAIN arrows[1]
   /\ arrows[1].target = box_id
   /\ arrows[1].source # box_id
   /\ {arrows[1].source, box_id} \subseteq DOMAIN boxes)
    => /\ result.kind # "key_error"
       /\ arrows[1].source \in Evaluated
       /\ \E j \in 1..Len(evals) :
            /\ evals[j].node = box_id
            /\ evals[j].by = "resolver"
            /\ arrows[1].source \in DOMAIN execution_cache
            /\ SameBindings(evals[j].input, execution_cache[arrows[1].source])

\* C13 as stated: the evaluation of the target that the result is shaped
\* from runs the code text the request carries: it leaves the environment,
\* returns the value and raises or not as that text does in the environment
\* the evaluation started in.
C13_RequestCodeEvaluated ==
  \A i \in 1..Len(evals) :
    (evals[i].node = box_id /\ evals[i].by = "formatter")
      => LET r == execute_code(code, evals[i].input)
         IN /\ evals[i].output = r.env
            /\ evals[i].value = r.value
            /\ evals[i].raised = r.raised

\* The text a run printed, as the result carries it: standard output, then
\* the labelled standard error, without the whitespace around them.
CapturedText == strip(text_output(formatted.stdout_output, formatted.stderr_output))
NothingPrinted == Len(formatted.stdout_output) = 0 /\ Len(formatted.stderr_output) = 0

\* C14: the shape of a successful result follows from the class of the
\* trailing value alone.  No value: output is the captured text as a plain
\* string, empty when nothing was printed.  A figure: a record whose data
\* holds image/png.  A value with an HTML representation that is no figure:
\* data holds text/html and text/plain.  Any other value: data holds
\* text/plain.  In every record text_output is the captured text or absent,
\* and error is false.
C14_ShapeFollowsValueClass ==
  (formatted.returned /\ ~formatted.output.error)
    => LET v == formatted.last_expr
           out == formatted.output
       IN /\ v.is_none =>
               /\ out.plain
               /\ out.text = CapturedText
               /\ NothingPrinted => out.text = <<>>
          /\ ~v.is_none =>
               /\ ~out.plain
               /\ out.text_absent \/ out.text = CapturedText
               /\ out.text_absent => NothingPrinted
          /\ v.is_figure => out.data = {"image/png"}
          /\ (~v.is_figure /\ v.has_repr_html) => out.data = {"text/html", "text/plain"}
          /\ (~v.is_none /\ ~v.is_figure /\ ~v.has_repr_html) => out.data = {"text/plain"}

\* A figure that also has an HTML representation, with text on standard
\* output and on standard error, was shaped into an image/png record that
\* carries the text.
C14_Witness ==
  /\ formatted.returned
  /\ ~formatted.output.error
  /\ formatted.last_expr.is_figure
  /\ formatted.last_expr.has_repr_html
  /\ Len(formatted.stdout_output) > 0
  /\ Len(formatted.stderr_output) > 0
  /\ formatted.output.data = {"image/png"}
  /\ ~formatted.output.text_absent

\* A step of a running request leaves every entry of the execution cache in
\* the cache, with the bindings it has.
CacheEntriesKept ==
  pc \in {"resolve", "format"}
    => \A n \in DOMAIN execution_cache :
         /\ n \in DOMAIN execution_cache'
         /\ execution_cache'[n] = execution_cache[n]

\* C15 as stated: while a request runs, an entry of the execution cache
\* stays in the cache with the bindings it was stored with, at every step:
\* of the resolver and of the final evaluation of the target.
C15_CacheEntriesFrozen == [][CacheEntriesKept]_vars

\* C16: the cache is ancestor-closed and filled in dependency order.  In
\* every state, every parent of a node that has a cache entry has a cache
\* entry; and when the resolver evaluates a node, it has evaluated every
\* parent of the node before and holds the parent's environment in the
\* cache.
C16_CacheAncestorClosed ==
  /\ \A n \in DOMAIN execution_cache :
       \A p \in Ids : Edge(p, n) => p \in DOMAIN execution_cache
  /\ \A i \in 1..Len(evals) :
       evals[i].by = "resolver"
         => \A p \in Ids :
              Edge(p, evals[i].node)
                => /\ p \in DOMAIN execution_cache
                   /\ \E j \in 1..(i - 1) :
                        evals[j].node = p /\ evals[j].by = "resolver"

\* The call returned with three nodes in the cache: the target with two
\* parents, one of which is a parent of the other.
C16_Witness ==
  /\ Returned
  /\ DOMAIN execution_cache = Ids
  /\ \E p1, p2 \in Ids \ {box_id} :
       /\ p1 # p2
       /\ Edge(p1, box_id)
       /\ Edge(p2, box_id)
       /\ Edge(p2, p1)

\* The nodes of the active calls of _execute_dag_node above the k-th.
PathAbove(k) == {stack[j].node_id : j \in 1..(k - 1)}

\* The visited set of every active call is the set of the nodes of the
\* active calls above it, which are distinct and do not include its node
\* at entry, and, once the call is in the loop over its parents, its node.
C17_VisitedIsPath ==
  \A k \in 1..Len(stack) :
    /\ Cardinality(PathAbove(k)) = k - 1
    /\ stack[k].phase = "enter" => stack[k].visited = PathAbove(k)
    /\ stack[k].phase = "parents"
         => /\ stack[k].node_id \notin PathAbove(k)
            /\ stack[k].visited = PathAbove(k) \cup {stack[k].node_id}

\* A call that evaluates its node and returns leaves the visited set it
\* was given: the nodes of the calls that stay active, without its node.
C17_NodeLeavesVisited ==
  (pc = "resolve" /\ Len(evals') = Len(evals) + 1)
    => /\ left_visited'.node_id = Top.node_id
       /\ left_visited'.node_id \notin left_visited'.visited
       /\ left_visited'.visited = {stack'[j].node_id : j \in 1..Len(stack')}

\* C17: on entry to every call of _execute_dag_node the visited set is the
\* set of the nodes on the active recursion path above the node, so it
\* holds no node of a completed sibling branch; and on normal return the
\* node has left the set it joined.
C17_VisitedPathLocal == [](C17_VisitedIsPath) /\ [][C17_NodeLeavesVisited]_vars

\* A call was entered with a visited set of two nodes while the first
\* parent of the target, a completed sibling branch, was in the cache.
C17_Witness ==
  /\ pc = "resolve"
  /\ Len(stack) = 3
  /\ Top.phase = "enter"
  /\ Top.visited = {stack[1].node_id, stack[2].node_id}
  /\ \E n \in DOMAIN execution_cache : n \notin Top.visited

\* C18 as stated: a call of _execute_code runs the statements of its code
\* at most once, so a call that raised leaves the bindings that one run of
\* the code up to the failing statement makes.
C18_CodeRunAtMostOnce ==
  \A i \in 1..Len(evals) :
    /\ evals[i].runs <= 1
    /\ evals[i].raised
         => SameBindings(evals[i].output, exec(boxes[evals[i].node], evals[i].input).env)

====
